---- MODULE Spec2Model ----
(***************************************************************************)
(* AI Music Player backend v3.5.0 (src/server.js): the OTP login flow, the *)
(* email system with its SMTP/simulation transporters, the session gate    *)
(* and the song routes, as a state machine over the database collections,  *)
(* the session store, the in-process EmailSystem object and the requests   *)
(* in flight.  A handler is cut into steps at its awaits: between two      *)
(* steps of one request the steps of other requests may run.               *)
(*                                                                         *)
(* Strings the code inspects character by character (emails, OTP codes,    *)
(* the words of the email HTML) are sequences of one-character strings.    *)
(* <<>> stands for undefined / a missing field, NoDate for a missing Date, *)
(* 0 for a missing id.  Times are milliseconds.                            *)
(* The write-only fields lastLogin and createdAt are left out.             *)
(*                                                                         *)
(* The start-up of the no-auth frontend v4.0 (src/public/aiMusicPlayer.js, *)
(* its first 1040 lines) is a second state machine in the variable app:    *)
(* the health check with its retries, the timers that show the player and  *)
(* loadUserSongs; what its fetches come to is an input.                    *)
(***************************************************************************)
EXTENDS Integers, Sequences, FiniteSets

\* ------------------------------------------------------------------ bounds
\* clock advances per behaviour
MaxTicks == 3
\* cap on EmailSystem.consecutiveFailures (the code's counter is unbounded)
MaxFailures == 4
\* requests in flight at once
MaxInFlight == 2
\* Song documents / cloud assets ever created
MaxSongs == 2
\* mongoose.connect calls that fail (the code retries for ever)
MaxAttempts == 4
\* trackPlayCount calls per behaviour
MaxPlays == 3
\* refresh clicks and uploads in the frontend per behaviour
MaxClicks == 2

\* ------------------------------------------------------- program constants
minDelay == 60000
MaxOtpAttempts == 5
maxConsecutiveFailures == 3
OtpMin == 100000
OtpMax == 999999
OtpLength == 6
OtpLifetime == 10 * 60 * 1000
RetryDelay == 5000
\* the grain of time on the retry timer
TimerStep == RetryDelay \div 5
\* frontend (public/aiMusicPlayer.js)
MAX_RETRIES == 3
RETRY_DELAY == 2000

NoDate == -1
Undefined == <<>>

\* ----------------------------------------------------------------- strings
Digits == <<"0","1","2","3","4","5","6","7","8","9">>
UpperCase == <<"A","B","C","D">>
LowerCase == <<"a","b","c","d">>
WhiteSpace == {" "}

IsDigit(c) == \E i \in DOMAIN Digits : Digits[i] = c

\* /^\d+$/.test(s)
AllDigits(s) == Len(s) > 0 /\ \A i \in DOMAIN s : IsDigit(s[i])

LowerChar(c) ==
  IF \E i \in DOMAIN UpperCase : UpperCase[i] = c
  THEN LowerCase[CHOOSE i \in DOMAIN UpperCase : UpperCase[i] = c]
  ELSE c

\* String.prototype.toLowerCase
ToLowerCase(s) == [i \in DOMAIN s |-> LowerChar(s[i])]

RECURSIVE TrimStart(_)
TrimStart(s) == IF s # <<>> /\ Head(s) \in WhiteSpace THEN TrimStart(Tail(s)) ELSE s

RECURSIVE TrimEnd(_)
TrimEnd(s) ==
  IF s # <<>> /\ s[Len(s)] \in WhiteSpace THEN TrimEnd(SubSeq(s, 1, Len(s) - 1)) ELSE s

\* String.prototype.trim
Trim(s) == TrimEnd(TrimStart(s))

\* email.trim().toLowerCase()
NormalizeEmail(s) == ToLowerCase(Trim(s))

\* /^[^\s@]+@[^\s@]+\.[^\s@]+$/.test(s): no white space, exactly one "@" with
\* something before it, and after it a "." with something on both sides
IsEmail(s) ==
  /\ \A i \in DOMAIN s : s[i] \notin WhiteSpace
  /\ \E a \in DOMAIN s :
       /\ s[a] = "@"
       /\ a > 1
       /\ \A i \in DOMAIN s : s[i] = "@" => i = a
       /\ \E d \in DOMAIN s : s[d] = "." /\ d > a + 1 /\ d < Len(s)

RECURSIVE DigitsOf(_)
DigitsOf(n) == IF n < 10 THEN <<Digits[n + 1]>> ELSE Append(DigitsOf(n \div 10), Digits[(n % 10) + 1])

\* Number.prototype.toString for a non-negative integer
ToString(n) == DigitsOf(n)

\* Math.ceil(x / 1000) for an integer x
CeilSeconds(x) == IF x % 1000 = 0 THEN x \div 1000 ELSE (x \div 1000) + 1

\* generateOtpEmailHtml: the words (maximal runs of [A-Za-z0-9_]) of the template that precede ${otp}
HtmlBeforeOtp ==
  <<
    <<"D","O","C","T","Y","P","E">>, <<"h","t","m","l">>, <<"h","t","m","l">>, <<"h","e","a","d">>,
    <<"m","e","t","a">>, <<"c","h","a","r","s","e","t">>, <<"U","T","F">>, <<"8">>, <<"m","e","t","a">>,
    <<"n","a","m","e">>, <<"v","i","e","w","p","o","r","t">>, <<"c","o","n","t","e","n","t">>,
    <<"w","i","d","t","h">>, <<"d","e","v","i","c","e">>, <<"w","i","d","t","h">>,
    <<"i","n","i","t","i","a","l">>, <<"s","c","a","l","e">>, <<"1">>, <<"0">>, <<"t","i","t","l","e">>,
    <<"A","I">>, <<"M","u","s","i","c">>, <<"P","l","a","y","e","r">>, <<"O","T","P">>,
    <<"t","i","t","l","e">>, <<"s","t","y","l","e">>, <<"b","o","d","y">>, <<"f","o","n","t">>,
    <<"f","a","m","i","l","y">>, <<"A","r","i","a","l">>, <<"s","a","n","s">>, <<"s","e","r","i","f">>,
    <<"b","a","c","k","g","r","o","u","n","d">>, <<"f","5","f","5","f","5">>, <<"m","a","r","g","i","n">>,
    <<"0">>, <<"p","a","d","d","i","n","g">>, <<"2","0","p","x">>, <<"c","o","n","t","a","i","n","e","r">>,
    <<"m","a","x">>, <<"w","i","d","t","h">>, <<"6","0","0","p","x">>, <<"m","a","r","g","i","n">>, <<"0">>,
    <<"a","u","t","o">>, <<"b","a","c","k","g","r","o","u","n","d">>, <<"w","h","i","t","e">>,
    <<"b","o","r","d","e","r">>, <<"r","a","d","i","u","s">>, <<"1","0","p","x">>,
    <<"o","v","e","r","f","l","o","w">>, <<"h","i","d","d","e","n">>, <<"b","o","x">>,
    <<"s","h","a","d","o","w">>, <<"0">>, <<"4","p","x">>, <<"6","p","x">>, <<"r","g","b","a">>, <<"0">>,
    <<"0">>, <<"0">>, <<"0">>, <<"1">>, <<"h","e","a","d","e","r">>,
    <<"b","a","c","k","g","r","o","u","n","d">>, <<"l","i","n","e","a","r">>,
    <<"g","r","a","d","i","e","n","t">>, <<"1","3","5","d","e","g">>, <<"7","4","7","4","b","f">>,
    <<"3","4","8","a","c","7">>, <<"p","a","d","d","i","n","g">>, <<"3","0","p","x">>, <<"t","e","x","t">>,
    <<"a","l","i","g","n">>, <<"c","e","n","t","e","r">>, <<"c","o","l","o","r">>, <<"w","h","i","t","e">>,
    <<"h","e","a","d","e","r">>, <<"h","1">>, <<"m","a","r","g","i","n">>, <<"0">>, <<"f","o","n","t">>,
    <<"s","i","z","e">>, <<"2","4","p","x">>, <<"c","o","n","t","e","n","t">>,
    <<"p","a","d","d","i","n","g">>, <<"3","0","p","x">>, <<"t","e","x","t">>, <<"a","l","i","g","n">>,
    <<"c","e","n","t","e","r">>, <<"o","t","p">>, <<"c","o","d","e">>, <<"f","o","n","t">>,
    <<"s","i","z","e">>, <<"4","8","p","x">>, <<"f","o","n","t">>, <<"w","e","i","g","h","t">>,
    <<"b","o","l","d">>, <<"l","e","t","t","e","r">>, <<"s","p","a","c","i","n","g">>, <<"1","0","p","x">>,
    <<"c","o","l","o","r">>, <<"3","3","3">>, <<"m","a","r","g","i","n">>, <<"3","0","p","x">>, <<"0">>,
    <<"p","a","d","d","i","n","g">>, <<"2","0","p","x">>, <<"b","a","c","k","g","r","o","u","n","d">>,
    <<"f","8","f","9","f","a">>, <<"b","o","r","d","e","r">>, <<"r","a","d","i","u","s">>, <<"8","p","x">>,
    <<"f","o","n","t">>, <<"f","a","m","i","l","y">>, <<"m","o","n","o","s","p","a","c","e">>,
    <<"f","o","o","t","e","r">>, <<"b","a","c","k","g","r","o","u","n","d">>, <<"f","8","f","9","f","a">>,
    <<"p","a","d","d","i","n","g">>, <<"2","0","p","x">>, <<"t","e","x","t">>, <<"a","l","i","g","n">>,
    <<"c","e","n","t","e","r">>, <<"c","o","l","o","r">>, <<"6","6","6">>, <<"f","o","n","t">>,
    <<"s","i","z","e">>, <<"1","2","p","x">>, <<"b","o","r","d","e","r">>, <<"t","o","p">>, <<"1","p","x">>,
    <<"s","o","l","i","d">>, <<"e","9","e","c","e","f">>, <<"n","o","t","e">>, <<"c","o","l","o","r">>,
    <<"6","6","6">>, <<"f","o","n","t">>, <<"s","i","z","e">>, <<"1","4","p","x">>,
    <<"m","a","r","g","i","n">>, <<"t","o","p">>, <<"2","0","p","x">>, <<"s","e","c","u","r","i","t","y">>,
    <<"n","o","t","e">>, <<"b","a","c","k","g","r","o","u","n","d">>, <<"f","f","f","3","c","d">>,
    <<"p","a","d","d","i","n","g">>, <<"1","5","p","x">>, <<"b","o","r","d","e","r">>,
    <<"r","a","d","i","u","s">>, <<"5","p","x">>, <<"m","a","r","g","i","n">>, <<"t","o","p">>,
    <<"2","0","p","x">>, <<"c","o","l","o","r">>, <<"8","5","6","4","0","4">>, <<"f","o","n","t">>,
    <<"s","i","z","e">>, <<"1","3","p","x">>, <<"s","t","y","l","e">>, <<"h","e","a","d">>,
    <<"b","o","d","y">>, <<"d","i","v">>, <<"c","l","a","s","s">>, <<"c","o","n","t","a","i","n","e","r">>,
    <<"d","i","v">>, <<"c","l","a","s","s">>, <<"h","e","a","d","e","r">>, <<"h","1">>, <<"A","I">>,
    <<"M","u","s","i","c">>, <<"P","l","a","y","e","r">>, <<"h","1">>, <<"p">>, <<"Y","o","u","r">>,
    <<"M","u","s","i","c">>, <<"A","n","y","w","h","e","r","e">>, <<"p">>, <<"d","i","v">>, <<"d","i","v">>,
    <<"c","l","a","s","s">>, <<"c","o","n","t","e","n","t">>, <<"h","2">>,
    <<"V","e","r","i","f","i","c","a","t","i","o","n">>, <<"C","o","d","e">>, <<"h","2">>, <<"p">>,
    <<"E","n","t","e","r">>, <<"t","h","i","s">>, <<"c","o","d","e">>, <<"i","n">>, <<"t","h","e">>,
    <<"A","I">>, <<"M","u","s","i","c">>, <<"P","l","a","y","e","r">>, <<"a","p","p">>, <<"t","o">>,
    <<"v","e","r","i","f","y">>, <<"y","o","u","r">>, <<"e","m","a","i","l">>,
    <<"a","d","d","r","e","s","s">>, <<"p">>, <<"d","i","v">>, <<"c","l","a","s","s">>, <<"o","t","p">>,
    <<"c","o","d","e">>
  >>

\* the words between ${otp} and ${new Date().getFullYear()}
HtmlBeforeYear ==
  <<
    <<"d","i","v">>, <<"p">>, <<"c","l","a","s","s">>, <<"n","o","t","e">>, <<"T","h","i","s">>,
    <<"c","o","d","e">>, <<"w","i","l","l">>, <<"e","x","p","i","r","e">>, <<"i","n">>,
    <<"s","t","r","o","n","g">>, <<"1","0">>, <<"m","i","n","u","t","e","s">>, <<"s","t","r","o","n","g">>,
    <<"p">>, <<"d","i","v">>, <<"c","l","a","s","s">>, <<"s","e","c","u","r","i","t","y">>,
    <<"n","o","t","e">>, <<"s","t","r","o","n","g">>, <<"S","e","c","u","r","i","t","y">>,
    <<"N","o","t","i","c","e">>, <<"s","t","r","o","n","g">>, <<"N","e","v","e","r">>,
    <<"s","h","a","r","e">>, <<"t","h","i","s">>, <<"c","o","d","e">>, <<"w","i","t","h">>,
    <<"a","n","y","o","n","e">>, <<"A","I">>, <<"M","u","s","i","c">>, <<"P","l","a","y","e","r">>,
    <<"s","t","a","f","f">>, <<"w","i","l","l">>, <<"n","e","v","e","r">>, <<"a","s","k">>, <<"f","o","r">>,
    <<"y","o","u","r">>, <<"O","T","P">>, <<"d","i","v">>, <<"p">>, <<"s","t","y","l","e">>,
    <<"m","a","r","g","i","n">>, <<"t","o","p">>, <<"2","0","p","x">>, <<"f","o","n","t">>,
    <<"s","i","z","e">>, <<"1","3","p","x">>, <<"c","o","l","o","r">>, <<"9","9","9">>, <<"I","f">>,
    <<"y","o","u">>, <<"d","i","d","n">>, <<"t">>, <<"r","e","q","u","e","s","t">>, <<"t","h","i","s">>,
    <<"c","o","d","e">>, <<"y","o","u">>, <<"c","a","n">>, <<"s","a","f","e","l","y">>,
    <<"i","g","n","o","r","e">>, <<"t","h","i","s">>, <<"e","m","a","i","l">>, <<"p">>, <<"d","i","v">>,
    <<"d","i","v">>, <<"c","l","a","s","s">>, <<"f","o","o","t","e","r">>, <<"p">>
  >>

\* the words after the year
HtmlAfterYear ==
  <<
    <<"A","I">>, <<"M","u","s","i","c">>, <<"P","l","a","y","e","r">>, <<"A","l","l">>,
    <<"r","i","g","h","t","s">>, <<"r","e","s","e","r","v","e","d">>, <<"p">>, <<"p">>, <<"T","h","i","s">>,
    <<"i","s">>, <<"a","n">>, <<"a","u","t","o","m","a","t","e","d">>, <<"e","m","a","i","l">>,
    <<"p","l","e","a","s","e">>, <<"d","o">>, <<"n","o","t">>, <<"r","e","p","l","y">>, <<"p">>,
    <<"d","i","v">>, <<"d","i","v">>, <<"b","o","d","y">>, <<"h","t","m","l">>
  >>

\* generateOtpEmailHtml(otp), as the sequence of its words
generateOtpEmailHtml(otp, year) ==
  HtmlBeforeOtp \o <<otp>> \o HtmlBeforeYear \o <<ToString(year)>> \o HtmlAfterYear

\* /\b(\d{6})\b/: a whole word of exactly six digits
IsSixDigitWord(w) == Len(w) = OtpLength /\ AllDigits(w)

NOT_FOUND == <<"N","O","T","_","F","O","U","N","D">>

\* options.html?.match(/\b(\d{6})\b/): the first match, or 'NOT_FOUND'
ExtractOtp(html) ==
  IF \E i \in DOMAIN html : IsSixDigitWord(html[i])
  THEN html[CHOOSE i \in DOMAIN html :
              /\ IsSixDigitWord(html[i])
              /\ \A j \in 1..(i - 1) : ~IsSixDigitWord(html[j])]
  ELSE NOT_FOUND

\* ------------------------------------------------------------------ inputs
Clients == {"c1", "c2"}
ReqIds == 1..MaxInFlight

EmailA == <<"a","@","b",".","c">>
EmailAUpper == <<"A","@","b",".","c">>
EmailAPadded == <<" ","a","@","b",".","c">>
EmailD == <<"d","@","b",".","c">>
EmailNoDot == <<"a","@","b">>
RawEmails == {EmailA, EmailAUpper, EmailAPadded, EmailD, EmailNoDot, Undefined}
UserEmails == {EmailA, EmailD}

\* crypto.randomInt(100000, 999999): min inclusive, max exclusive; two draws
OtpDraws == {n \in {100000, 856404} : n >= OtpMin /\ n < OtpMax}
CodeInputs ==
  {ToString(n) : n \in OtpDraws} \cup {<<"1","2","3","4","5">>, <<"1","2","a","4","5","6">>}
Years == {2025, 2026}
TimeSteps == {1, 59999, 540000}

\* what transporter.sendMail of the SMTP transporter can do: resolve with an
\* info object, or reject with an error
SmtpOutcomes ==
  {[kind |-> "info", accepted |-> a, has250 |-> b, code |-> "", responseCode |-> 0] :
     a \in BOOLEAN, b \in BOOLEAN}
  \cup
  {[kind |-> "error", accepted |-> FALSE, has250 |-> FALSE, code |-> c, responseCode |-> 0] :
     c \in {"EAUTH", "ETIMEDOUT", "ECONNREFUSED", ""}}
  \cup
  {[kind |-> "error", accepted |-> FALSE, has250 |-> FALSE, code |-> "", responseCode |-> n] :
     n \in {550, 554}}

\* sendMail resolved with the message accepted
Delivered == [kind |-> "info", accepted |-> TRUE, has250 |-> TRUE, code |-> "", responseCode |-> 0]

\* ------------------------------------------------------------------- state
VARIABLES
  now,        \* Date.now()
  ticks,      \* clock advances so far
  env,        \* process.env: hasCredentials (EMAIL_USER and EMAIL_PASS), production (NODE_ENV)
  es,         \* the emailSystem object
  boot,       \* the start-up emailSystem.initialize() call
  users,      \* User collection
  testOtps,   \* TestOtp collection
  sessions,   \* session store, by client cookie
  songs,      \* Song collection
  cloud,      \* Cloudinary assets (public ids)
  created,    \* Song documents created so far
  req,        \* requests in flight
  out,        \* the last response sent
  hist,       \* per email: the OTP last issued and what was answered since
  conn,       \* the database connection and connectWithRetry's loop
  tracked,    \* per song id: trackPlayCount calls made and fetches that failed
  app         \* the no-auth frontend (v4.0): AppState, the screens, its pending work

vars ==
  <<now, ticks, env, es, boot, users, testOtps, sessions, songs, cloud, created, req, out, hist,
    conn, tracked, app>>

NoUser ==
  [id |-> 0, email |-> Undefined, otp |-> Undefined, otpExpires |-> NoDate,
   otpAttempts |-> 0, lastOtpRequest |-> NoDate]

NoSession == [userId |-> 0, email |-> Undefined]

IdleReq ==
  [pc |-> "idle", route |-> "", client |-> "c1", email |-> Undefined, code |-> Undefined,
   user |-> NoUser, at |-> 0, otp |-> Undefined, transporter |-> "null", mailOtp |-> Undefined,
   kind |-> "", song |-> ""]

NoStatus ==
  [configured |-> FALSE, mode |-> "", initialized |-> FALSE, consecutiveFailures |-> 0,
   hasCredentials |-> FALSE]

NoResponse ==
  [route |-> "", client |-> "c1", email |-> Undefined, status |-> 0, success |-> FALSE,
   message |-> "", otp |-> Undefined, simulated |-> FALSE, retryAfter |-> 0,
   attemptsLeft |-> -1, mode |-> "", errorCode |-> "", list |-> <<>>, emailStatus |-> NoStatus,
   mongodb |-> FALSE, plays |-> -1, otps |-> {}]

NoHist == [otp |-> Undefined, wrongs |-> 0, uses |-> 0, compared |-> 0]

\* EmailSystem.constructor
NewEmailSystem ==
  [transporter |-> "null", configured |-> FALSE, mode |-> "unknown", initialized |-> FALSE,
   consecutiveFailures |-> 0]

\* mongoose.connection before connectWithRetry is first called: connected is
\* readyState === 1, pending the mongoose.connect calls not yet settled, timers
\* the armed setTimeout(connectWithRetry) timers and wait the time left on them,
\* attempts the mongoose.connect calls made, reachable whether a connect
\* settling now resolves
NewConnection ==
  [connected |-> FALSE, pending |-> 0, timers |-> 0, wait |-> 0, attempts |-> 0,
   reachable |-> TRUE]

NoTrack == [calls |-> 0, failed |-> 0]

\* ------------------------------------------------------- database connection
\* connectWithRetry up to `await mongoose.connect(...)`
connectWithRetry(k) == [k EXCEPT !.pending = @ + 1, !.attempts = @ + 1]

\* mongoose.connect resolved: nothing is scheduled
AfterConnectResolved(k) == [k EXCEPT !.pending = @ - 1, !.connected = TRUE]

\* mutant: a retry is scheduled in the catch block and once more after it
AfterConnectRejected_Twice(k) ==
  [k EXCEPT !.pending = @ - 1, !.timers = @ + 2, !.wait = RetryDelay]

\* catch: setTimeout(connectWithRetry, 5000)
AfterConnectRejected(k) ==
  [k EXCEPT !.pending = @ - 1, !.timers = @ + 1, !.wait = RetryDelay]

\* the pending mongoose.connect settles: it resolves when the database is
\* reachable and rejects (server selection timed out) when it is not
ConnectSettles ==
  /\ conn.pending > 0
  /\ conn.reachable \/ conn.attempts < MaxAttempts
  /\ conn' = IF conn.reachable THEN AfterConnectResolved(conn) ELSE AfterConnectRejected(conn)
  /\ UNCHANGED <<now, ticks, env, es, boot, users, testOtps, sessions, songs, cloud, created,
                 req, out, hist, tracked, app>>

\* d milliseconds pass on the armed retry timer
Elapse(d) ==
  /\ conn.timers > 0
  /\ conn.wait >= d
  /\ conn' = [conn EXCEPT !.wait = @ - d]
  /\ UNCHANGED <<now, ticks, env, es, boot, users, testOtps, sessions, songs, cloud, created,
                 req, out, hist, tracked, app>>

\* the retry timer is due: connectWithRetry runs again
RetryTimerFires ==
  /\ conn.timers > 0
  /\ conn.wait = 0
  /\ conn' = connectWithRetry([conn EXCEPT !.timers = @ - 1])
  /\ UNCHANGED <<now, ticks, env, es, boot, users, testOtps, sessions, songs, cloud, created,
                 req, out, hist, tracked, app>>

\* the database server goes down or comes up
Reachability(up) ==
  /\ conn.reachable # up
  /\ conn' = [conn EXCEPT !.reachable = up]
  /\ UNCHANGED <<now, ticks, env, es, boot, users, testOtps, sessions, songs, cloud, created,
                 req, out, hist, tracked, app>>

\* ------------------------------------------------------------ email system
\* initialize(), no credentials: the simulated transporter, at once
InitializeSimulation(e) ==
  [e EXCEPT !.transporter = "simulated", !.configured = FALSE, !.mode = "simulation",
            !.initialized = TRUE]

\* initialize(), credentials present: nodemailer.createTransport, then await verify()
InitializeCreateTransport(e) == [e EXCEPT !.transporter = "smtp"]

\* initialize(), after transporter.verify() resolved
InitializeVerified(e) ==
  [e EXCEPT !.configured = TRUE, !.mode = "production", !.initialized = TRUE]

\* initialize(), catch: fall back to the simulated transporter
InitializeFallback(e) ==
  [e EXCEPT !.transporter = "simulated", !.configured = FALSE, !.mode = "fallback",
            !.initialized = TRUE]

\* mutant: the failure count is not reported
getStatus_NoFailures(e) ==
  [configured |-> e.configured, mode |-> e.mode, initialized |-> e.initialized,
   consecutiveFailures |-> 0, hasCredentials |-> env.hasCredentials]

\* getStatus()
getStatus(e) ==
  [configured |-> e.configured, mode |-> e.mode, initialized |-> e.initialized,
   consecutiveFailures |-> e.consecutiveFailures, hasCredentials |-> env.hasCredentials]

\* the start-up call emailSystem.initialize(), up to its await: it runs while the
\* module loads, before the server accepts a request
BootInitialize(credentials) ==
  IF credentials
  THEN InitializeCreateTransport(NewEmailSystem)
  ELSE InitializeSimulation(NewEmailSystem)

\* the start-up call, after transporter.verify() resolved or rejected
BootVerified(ok) ==
  /\ boot = "verify"
  /\ es' = IF ok THEN InitializeVerified(es) ELSE InitializeFallback(es)
  /\ boot' = "done"
  /\ UNCHANGED <<now, ticks, env, conn, tracked, users, testOtps, sessions, songs, cloud,
                 created, req, out, hist, app>>

\* time passes
Tick(d) ==
  /\ ticks < MaxTicks
  /\ now' = now + d
  /\ ticks' = ticks + 1
  /\ UNCHANGED <<env, conn, tracked, es, boot, users, testOtps, sessions, songs, cloud,
                 created, req, out, hist, app>>

\* ---------------------------------------------------------------- database
\* User.findOne({ email })
FindUser(email) ==
  IF \E u \in users : u.email = email THEN CHOOSE u \in users : u.email = email ELSE NoUser

\* mutant: the document is always inserted
UpsertOtp_Insert(email, otp, t) ==
  users \cup {[id |-> Cardinality(users) + 1, email |-> email, otp |-> otp,
               otpExpires |-> t + OtpLifetime, otpAttempts |-> 0, lastOtpRequest |-> t]}

\* mutant: $gte in place of $gt
FindUserWithValidOtp_Gte(email, t) ==
  IF \E u \in users : u.email = email /\ u.otpExpires # NoDate /\ u.otpExpires >= t
  THEN CHOOSE u \in users : u.email = email /\ u.otpExpires # NoDate /\ u.otpExpires >= t
  ELSE NoUser

\* User.findOne({ email, otpExpires: { $gt: new Date() } })
FindUserWithValidOtp(email, t) ==
  IF \E u \in users : u.email = email /\ u.otpExpires # NoDate /\ u.otpExpires > t
  THEN CHOOSE u \in users : u.email = email /\ u.otpExpires # NoDate /\ u.otpExpires > t
  ELSE NoUser

\* User.findOneAndUpdate({ email }, { email, otp, otpExpires, otpAttempts: 0,
\* lastOtpRequest: new Date() }, { upsert: true })
UpsertOtp(email, otp, t) ==
  LET old == FindUser(email)
      doc == [id |-> IF old = NoUser THEN Cardinality(users) + 1 ELSE old.id,
              email |-> email, otp |-> otp, otpExpires |-> t + OtpLifetime,
              otpAttempts |-> 0, lastOtpRequest |-> t]
  IN  (users \ {old}) \cup {doc}

\* user.save(): the paths whose value differs from the one read are written to
\* the document with the same _id
SaveUser(read, changed) ==
  {IF u.id # read.id THEN u
   ELSE [u EXCEPT !.otp = IF changed.otp # read.otp THEN changed.otp ELSE @,
                  !.otpExpires = IF changed.otpExpires # read.otpExpires
                                 THEN changed.otpExpires ELSE @,
                  !.otpAttempts = IF changed.otpAttempts # read.otpAttempts
                                  THEN changed.otpAttempts ELSE @] : u \in users}

\* TestOtp.findOneAndUpdate({ email }, { email, otp }, { upsert: true })
UpsertTestOtp(email, otp) ==
  {t \in testOtps : t.email # email} \cup {[email |-> email, otp |-> otp]}

\* ----------------------------------------------------------------- requests
HasIdle == \E r \in ReqIds : req[r].pc = "idle"

\* the slot a new request takes
FreeSlot == CHOOSE r \in ReqIds : req[r].pc = "idle" /\ \A q \in ReqIds : req[q].pc = "idle" => r <= q

Reply(route, c, email, status, success, message) ==
  [NoResponse EXCEPT !.route = route, !.client = c, !.email = email, !.status = status,
                     !.success = success, !.message = message]

\* ------------------------------------------------------ POST /auth/send-otp
\* !email || typeof email !== 'string'
EmailMissing(email) == email = Undefined

\* mutant: the comparison turned around
RateLimited_Flipped(user, t) ==
  /\ user # NoUser
  /\ user.lastOtpRequest # NoDate
  /\ t - user.lastOtpRequest > minDelay

\* existingUser && existingUser.lastOtpRequest && Date.now() - lastOtpRequest < minDelay
RateLimited(user, t) ==
  /\ user # NoUser
  /\ user.lastOtpRequest # NoDate
  /\ t - user.lastOtpRequest < minDelay

\* Math.ceil((minDelay - timeSinceLastRequest) / 1000)
RemainingSeconds(user, t) == CeilSeconds(minDelay - (t - user.lastOtpRequest))

\* validation, then await User.findOne
SendOtpFind(c, email) ==
  /\ HasIdle
  /\ LET r == FreeSlot IN
       IF EmailMissing(email)
       THEN /\ out' = Reply("send-otp", c, Undefined, 400, FALSE, "Email is required")
            /\ UNCHANGED req
       ELSE IF ~IsEmail(email)
       THEN /\ out' = Reply("send-otp", c, Undefined, 400, FALSE, "Please enter a valid email address")
            /\ UNCHANGED req
       ELSE /\ req' = [req EXCEPT ![r] =
                         [IdleReq EXCEPT !.pc = "send_found", !.route = "send-otp", !.client = c,
                                         !.email = NormalizeEmail(email),
                                         !.user = FindUser(NormalizeEmail(email)), !.at = now]]
            /\ UNCHANGED out
  /\ UNCHANGED <<now, ticks, env, conn, tracked, es, boot, users, testOtps, sessions, songs,
                 cloud, created, hist, app>>

\* rate limiting check, then generate the OTP and await User.findOneAndUpdate
SendOtpStore(r, n) ==
  /\ req[r].pc = "send_found"
  /\ IF RateLimited(req[r].user, now)
     THEN /\ out' = [Reply("send-otp", req[r].client, req[r].email, 429, FALSE,
                           "Please wait before requesting another OTP")
                       EXCEPT !.retryAfter = RemainingSeconds(req[r].user, now)]
          /\ req' = [req EXCEPT ![r] = IdleReq]
          /\ UNCHANGED <<users, hist>>
     ELSE /\ users' = UpsertOtp(req[r].email, ToString(n), now)
          /\ hist' = [hist EXCEPT ![req[r].email] = [NoHist EXCEPT !.otp = ToString(n)]]
          /\ req' = [req EXCEPT ![r].pc = "send_stored", ![r].otp = ToString(n)]
          /\ UNCHANGED out
  /\ UNCHANGED <<now, ticks, env, conn, tracked, es, boot, testOtps, sessions, songs, cloud,
                 created, app>>

\* the simulated transporter's sendMail: the OTP it reads from the HTML
SimulatedOtp(otp, year) == ExtractOtp(generateOtpEmailHtml(otp, year))

\* sendOtpEmail, initialized: up to `await this.transporter.sendMail(mailOptions)`
SendOtpEmailCall(r, year) ==
  /\ req[r].pc = "send_stored"
  /\ es.initialized
  /\ req' = [req EXCEPT ![r].pc = "send_mailed", ![r].transporter = es.transporter,
                        ![r].mailOtp = IF es.transporter = "simulated"
                                       THEN SimulatedOtp(req[r].otp, year) ELSE Undefined]
  /\ UNCHANGED <<now, ticks, env, conn, tracked, es, boot, users, testOtps, sessions, songs,
                 cloud, created, out, hist, app>>

\* sendOtpEmail before the start-up initialize() has finished (it is awaiting
\* verify(), so credentials are present): a second initialize() creates a
\* transporter and awaits verify()
SendOtpLazyInitialize(r) ==
  /\ req[r].pc = "send_stored"
  /\ ~es.initialized /\ env.hasCredentials
  /\ es' = InitializeCreateTransport(es)
  /\ req' = [req EXCEPT ![r].pc = "send_verify"]
  /\ UNCHANGED <<now, ticks, env, conn, tracked, boot, users, testOtps, sessions, songs,
                 cloud, created, out, hist, app>>

\* the lazy initialize() returns, sendOtpEmail goes on to sendMail
SendOtpLazyVerified(r, ok, year) ==
  /\ req[r].pc = "send_verify"
  /\ LET e == IF ok THEN InitializeVerified(es) ELSE InitializeFallback(es) IN
       /\ es' = e
       /\ req' = [req EXCEPT ![r].pc = "send_mailed", ![r].transporter = e.transporter,
                             ![r].mailOtp = IF e.transporter = "simulated"
                                            THEN SimulatedOtp(req[r].otp, year) ELSE Undefined]
  /\ UNCHANGED <<now, ticks, env, conn, tracked, boot, users, testOtps, sessions, songs,
                 cloud, created, out, hist, app>>

\* (result.accepted && result.accepted.length > 0) || result.response.includes('250')
ActuallyDelivered(o) == o.accepted \/ o.has250

\* sendMail rejected, or its result was not accepted: the catch branch runs
SendFailed(transporter, o) ==
  transporter # "simulated" /\ (o.kind = "error" \/ ~ActuallyDelivered(o))

\* the emailSystem fields after sendMail settled
EmailSystemAfterSend(e, transporter, o) ==
  IF transporter = "simulated" THEN e
  ELSE IF ~SendFailed(transporter, o) THEN [e EXCEPT !.consecutiveFailures = 0]
  ELSE [e EXCEPT !.consecutiveFailures = @ + 1,
                 !.mode = IF e.consecutiveFailures + 1 >= maxConsecutiveFailures
                          THEN "fallback" ELSE @]

\* mutant: the catch branch hands the OTP back
SendOtpEmailResult_LeakOnError(e, transporter, o, otp, mailOtp) ==
  IF transporter = "simulated"
  THEN [success |-> TRUE, simulated |-> TRUE, otp |-> mailOtp, mode |-> e.mode,
        errorCode |-> "", responseCode |-> 0]
  ELSE [success |-> ~(o.kind = "error" \/ ~(o.accepted \/ o.has250)), simulated |-> FALSE,
        otp |-> otp, mode |-> e.mode,
        errorCode |-> IF o.kind = "error" THEN o.code ELSE "",
        responseCode |-> IF o.kind = "error" THEN o.responseCode ELSE 0]

\* what sendOtpEmail(email, otp) returns
SendOtpEmailResult(e, transporter, o, otp, mailOtp) ==
  IF transporter = "simulated"
  THEN [success |-> TRUE, simulated |-> TRUE, otp |-> mailOtp, mode |-> e.mode,
        errorCode |-> "", responseCode |-> 0]
  ELSE IF ~SendFailed(transporter, o)
  THEN [success |-> TRUE, simulated |-> FALSE, otp |-> Undefined, mode |-> e.mode,
        errorCode |-> "", responseCode |-> 0]
  ELSE [success |-> FALSE, simulated |-> FALSE, otp |-> Undefined, mode |-> e.mode,
        errorCode |-> IF o.kind = "error" THEN o.code ELSE "",
        responseCode |-> IF o.kind = "error" THEN o.responseCode ELSE 0]

\* statusCode of scenario 3
EmailFailureStatus(result) ==
  CASE result.errorCode = "EAUTH" -> 503
    [] result.errorCode = "ETIMEDOUT" -> 504
    [] result.errorCode = "ECONNREFUSED" -> 503
    [] result.responseCode = 550 -> 400
    [] OTHER -> 500

\* the three scenarios of the send-otp response
SendOtpResponse(c, email, result) ==
  IF result.success /\ ~result.simulated
  THEN [Reply("send-otp", c, email, 200, TRUE, "OTP sent to your email")
          EXCEPT !.mode = result.mode]
  ELSE IF result.success /\ result.simulated
  THEN [Reply("send-otp", c, email, 200, TRUE, "Email system in development mode")
          EXCEPT !.mode = result.mode, !.otp = result.otp, !.simulated = TRUE]
  ELSE [Reply("send-otp", c, email, EmailFailureStatus(result), FALSE, "Failed to send OTP email")
          EXCEPT !.mode = result.mode, !.errorCode = result.errorCode]

\* sendMail settled: sendOtpEmail returns and the handler answers
SendOtpRespond(r, o) ==
  /\ req[r].pc = "send_mailed"
  /\ SendFailed(req[r].transporter, o) => es.consecutiveFailures < MaxFailures
  /\ LET e == EmailSystemAfterSend(es, req[r].transporter, o)
         result == SendOtpEmailResult(e, req[r].transporter, o, req[r].otp, req[r].mailOtp)
     IN /\ es' = e
        /\ testOtps' = IF req[r].transporter = "simulated"
                       THEN UpsertTestOtp(req[r].email, req[r].mailOtp) ELSE testOtps
        /\ out' = SendOtpResponse(req[r].client, req[r].email, result)
  /\ req' = [req EXCEPT ![r] = IdleReq]
  /\ UNCHANGED <<now, ticks, env, conn, tracked, boot, users, sessions, songs, cloud,
                 created, hist, app>>

\* catch: User.findOne or User.findOneAndUpdate rejected
SendOtpDbError(r) ==
  /\ req[r].pc = "send_found"
  /\ out' = Reply("send-otp", req[r].client, req[r].email, 500, FALSE,
                  "Server error. Please try again later.")
  /\ req' = [req EXCEPT ![r] = IdleReq]
  /\ UNCHANGED <<now, ticks, env, es, boot, users, testOtps, sessions, songs, cloud, created,
                 hist, conn, tracked, app>>

\* ---------------------------------------------------- POST /auth/verify-otp
\* !(!email || !otp || otp.length !== 6 || !/^\d+$/.test(otp))
ValidOtpInput(email, code) ==
  email # Undefined /\ code # Undefined /\ Len(code) = OtpLength /\ AllDigits(code)

\* mutant: > in place of >=
AttemptsExhausted_Gt(user) == user.otpAttempts > MaxOtpAttempts

\* user.otpAttempts >= 5
AttemptsExhausted(user) == user.otpAttempts >= MaxOtpAttempts

\* !(user.otp !== otp)
OtpMatches(user, code) == user.otp = code

\* user.otp = undefined; user.otpExpires = undefined; user.otpAttempts = 0
ClearOtp(user) == [user EXCEPT !.otp = Undefined, !.otpExpires = NoDate, !.otpAttempts = 0]

\* user.otpAttempts = (user.otpAttempts || 0) + 1
CountAttempt(user) == [user EXCEPT !.otpAttempts = @ + 1]

\* the branch the handler takes for the document it read
VerifyBranch(user, code) ==
  IF user = NoUser THEN "none"
  ELSE IF AttemptsExhausted(user) THEN "locked"
  ELSE IF ~OtpMatches(user, code) THEN "wrong"
  ELSE "ok"

\* req.session.userId = user._id; req.session.email = user.email
CreateSession(user) == [userId |-> user.id, email |-> user.email]

\* a well-formed code that is not the OTP last issued for the email
WrongCode(email, code) ==
  /\ email \in DOMAIN hist
  /\ hist[email].otp # Undefined
  /\ code # hist[email].otp

\* one more code was compared with the stored OTP and found different; the
\* count starts again when the OTP is cleared (locked out or used)
Compared(email, branch) ==
  IF email \notin DOMAIN hist THEN hist
  ELSE [hist EXCEPT ![email].compared =
                      IF branch # "wrong" THEN 0
                      ELSE IF @ <= MaxOtpAttempts THEN @ + 1 ELSE @]

Noted(email, code, status) ==
  IF email \notin DOMAIN hist THEN hist
  ELSE [hist EXCEPT ![email].wrongs =
                      IF WrongCode(email, code) /\ @ < MaxOtpAttempts THEN @ + 1 ELSE @,
                    ![email].uses = IF status = 200 /\ @ < 2 THEN @ + 1 ELSE @]

\* validation, then await User.findOne with the expiry filter
VerifyOtpFind(c, email, code) ==
  /\ HasIdle
  /\ LET r == FreeSlot IN
       IF ~ValidOtpInput(email, code)
       THEN /\ out' = Reply("verify-otp", c, Undefined, 400, FALSE, "Please enter a valid 6-digit OTP")
            /\ UNCHANGED req
       ELSE /\ req' = [req EXCEPT ![r] =
                         [IdleReq EXCEPT !.pc = "verify_found", !.route = "verify-otp",
                                         !.client = c, !.email = NormalizeEmail(email),
                                         !.code = code, !.at = now,
                                         !.user = FindUserWithValidOtp(NormalizeEmail(email), now)]]
            /\ UNCHANGED out
  /\ UNCHANGED <<now, ticks, env, conn, tracked, es, boot, users, testOtps, sessions, songs,
                 cloud, created, hist, app>>

\* the handler resumes with the document: answer 400 when there is none, else
\* change the document and await user.save()
VerifyOtpSave(r) ==
  /\ req[r].pc = "verify_found"
  /\ LET user == req[r].user
         branch == VerifyBranch(user, req[r].code)
     IN IF branch = "none"
        THEN /\ out' = Reply("verify-otp", req[r].client, req[r].email, 400, FALSE,
                             "No OTP found or OTP has expired")
             /\ hist' = Noted(req[r].email, req[r].code, 400)
             /\ req' = [req EXCEPT ![r] = IdleReq]
             /\ UNCHANGED users
        ELSE /\ users' = SaveUser(user, IF branch = "wrong" THEN CountAttempt(user)
                                        ELSE ClearOtp(user))
             /\ req' = [req EXCEPT ![r].pc = "verify_saved", ![r].kind = branch]
             /\ hist' = Compared(req[r].email, branch)
             /\ UNCHANGED out
  /\ UNCHANGED <<now, ticks, env, conn, tracked, es, boot, testOtps, sessions, songs, cloud,
                 created, app>>

\* the status the handler answers with after user.save()
VerifyStatus(kind) ==
  CASE kind = "locked" -> 429
    [] kind = "wrong" -> 400
    [] OTHER -> 200

\* after user.save(): create the session on success, and answer
VerifyOtpRespond(r) ==
  /\ req[r].pc = "verify_saved"
  /\ LET kind == req[r].kind
         user == req[r].user
     IN /\ sessions' = IF kind = "ok"
                       THEN [sessions EXCEPT ![req[r].client] = CreateSession(user)]
                       ELSE sessions
        /\ out' = [Reply("verify-otp", req[r].client, req[r].email, VerifyStatus(kind),
                         kind = "ok",
                         CASE kind = "locked" -> "Too many incorrect attempts"
                           [] kind = "wrong" -> "Invalid OTP"
                           [] OTHER -> "Login successful!")
                     EXCEPT !.attemptsLeft = IF kind = "wrong"
                                             THEN MaxOtpAttempts - (user.otpAttempts + 1)
                                             ELSE -1]
        /\ hist' = Noted(req[r].email, req[r].code, VerifyStatus(kind))
  /\ req' = [req EXCEPT ![r] = IdleReq]
  /\ UNCHANGED <<now, ticks, env, conn, tracked, es, boot, users, testOtps, songs, cloud,
                 created, app>>

\* catch: User.findOne or user.save() rejected
VerifyOtpDbError(r) ==
  /\ req[r].pc = "verify_found"
  /\ out' = Reply("verify-otp", req[r].client, req[r].email, 500, FALSE,
                  "Error verifying OTP. Please try again.")
  /\ req' = [req EXCEPT ![r] = IdleReq]
  /\ UNCHANGED <<now, ticks, env, es, boot, users, testOtps, sessions, songs, cloud, created,
                 hist, conn, tracked, app>>

\* ------------------------------------------------- session and song routes
\* mutant: the middleware lets every request through
Unauthorized_Never(session) == FALSE

\* requireAuth: !req.session.userId
Unauthorized(session) == session.userId = 0

\* GET /auth/user
GetAuthUser(c) ==
  /\ out' = IF sessions[c].email # Undefined
            THEN Reply("auth-user", c, sessions[c].email, 200, TRUE, "")
            ELSE Reply("auth-user", c, Undefined, 401, FALSE, "Not authenticated")
  /\ UNCHANGED <<now, ticks, env, conn, tracked, es, boot, users, testOtps, sessions, songs,
                 cloud, created, req, hist, app>>

\* Song ids and Cloudinary public ids, in the order they are handed out
SongIds == <<"s1", "s2", "s3", "s4">>
CloudIds == <<"p1", "p2", "p3", "p4">>
DemoSongs == <<"demo1", "demo2">>
\* the ids the frontend plays: songs[index]._id of the list GET /songs returned
PlayIds == {SongIds[i] : i \in 1..MaxSongs} \cup {DemoSongs[1]}
SongLimit == 100

RECURSIVE NewestFirst(_)
\* .sort({ createdAt: -1 }) of a set of Song documents, as the sequence of ids
NewestFirst(S) ==
  IF S = {} THEN <<>>
  ELSE LET s == CHOOSE x \in S : \A y \in S : y.n <= x.n
       IN  <<s.id>> \o NewestFirst(S \ {s})

\* Song.find({ userEmail }).sort({ createdAt: -1 }).limit(100)
FindSongs(email) ==
  LET all == NewestFirst({s \in songs : s.userEmail = email})
  IN  SubSeq(all, 1, IF Len(all) < SongLimit THEN Len(all) ELSE SongLimit)

\* GET /songs
GetSongs(c) ==
  /\ out' = IF Unauthorized(sessions[c])
            THEN Reply("songs", c, Undefined, 401, FALSE, "Please login to continue")
            ELSE [Reply("songs", c, sessions[c].email, 200, TRUE, "")
                    EXCEPT !.list = IF Len(FindSongs(sessions[c].email)) = 0
                                    THEN DemoSongs ELSE FindSongs(sessions[c].email)]
  /\ UNCHANGED <<now, ticks, env, conn, tracked, es, boot, users, testOtps, sessions, songs,
                 cloud, created, req, hist, app>>

\* multer: fileFilter (allowedTypes) and limits.fileSize; "" when the file passes
MulterError(file) ==
  IF file.present /\ ~file.audio THEN "Invalid file type"
  ELSE IF file.present /\ file.tooLarge THEN "LIMIT_FILE_SIZE"
  ELSE ""

Files ==
  {[present |-> p, audio |-> a, tooLarge |-> l] : p \in BOOLEAN, a \in BOOLEAN, l \in BOOLEAN}

\* a file of an allowed type within the size limit
AudioFile == [present |-> TRUE, audio |-> TRUE, tooLarge |-> FALSE]

\* mutant: the catch destroys the asset it has just uploaded
Upload_Compensate(c, file, cloudOk, saveOk) ==
  /\ \/ Unauthorized(sessions[c])
     \/ MulterError(file) # ""
     \/ ~file.present
     \/ ~cloudOk
     \/ created < MaxSongs
  /\ IF Unauthorized(sessions[c])
     THEN /\ out' = Reply("upload", c, Undefined, 401, FALSE, "Please login to continue")
          /\ UNCHANGED <<songs, cloud, created>>
     ELSE IF MulterError(file) = "LIMIT_FILE_SIZE"
     THEN /\ out' = Reply("upload", c, sessions[c].email, 400, FALSE, "File too large (max 100MB)")
          /\ UNCHANGED <<songs, cloud, created>>
     ELSE IF MulterError(file) # ""
     THEN /\ out' = Reply("upload", c, sessions[c].email, 500, FALSE, "Something went wrong!")
          /\ UNCHANGED <<songs, cloud, created>>
     ELSE IF ~file.present
     THEN /\ out' = Reply("upload", c, sessions[c].email, 400, FALSE, "Please select an audio file")
          /\ UNCHANGED <<songs, cloud, created>>
     ELSE IF ~cloudOk
     THEN /\ out' = Reply("upload", c, sessions[c].email, 500, FALSE, "Upload failed")
          /\ UNCHANGED <<songs, cloud, created>>
     ELSE /\ cloud' = IF saveOk THEN cloud \cup {CloudIds[created + 1]} ELSE cloud
          /\ created' = created + 1
          /\ IF saveOk
             THEN /\ songs' = songs \cup {[id |-> SongIds[created + 1], n |-> created + 1,
                                           userEmail |-> sessions[c].email,
                                           cloudinaryId |-> CloudIds[created + 1],
                                           plays |-> 0]}
                  /\ out' = [Reply("upload", c, sessions[c].email, 200, TRUE,
                                   "Song uploaded successfully!")
                               EXCEPT !.list = <<SongIds[created + 1]>>]
             ELSE /\ songs' = songs
                  /\ out' = Reply("upload", c, sessions[c].email, 500, FALSE, "Upload failed")
  /\ UNCHANGED <<now, ticks, env, conn, tracked, es, boot, users, testOtps, sessions, req,
                 hist, app>>

\* POST /upload: requireAuth, multer, uploadToCloudinary, song.save()
Upload(c, file, cloudOk, saveOk) ==
  /\ \/ Unauthorized(sessions[c])
     \/ MulterError(file) # ""
     \/ ~file.present
     \/ ~cloudOk
     \/ created < MaxSongs
  /\ IF Unauthorized(sessions[c])
     THEN /\ out' = Reply("upload", c, Undefined, 401, FALSE, "Please login to continue")
          /\ UNCHANGED <<songs, cloud, created>>
     ELSE IF MulterError(file) = "LIMIT_FILE_SIZE"
     THEN /\ out' = Reply("upload", c, sessions[c].email, 400, FALSE, "File too large (max 100MB)")
          /\ UNCHANGED <<songs, cloud, created>>
     ELSE IF MulterError(file) # ""
     THEN /\ out' = Reply("upload", c, sessions[c].email, 500, FALSE, "Something went wrong!")
          /\ UNCHANGED <<songs, cloud, created>>
     ELSE IF ~file.present
     THEN /\ out' = Reply("upload", c, sessions[c].email, 400, FALSE, "Please select an audio file")
          /\ UNCHANGED <<songs, cloud, created>>
     ELSE IF ~cloudOk
     THEN /\ out' = Reply("upload", c, sessions[c].email, 500, FALSE, "Upload failed")
          /\ UNCHANGED <<songs, cloud, created>>
     ELSE /\ cloud' = cloud \cup {CloudIds[created + 1]}
          /\ created' = created + 1
          /\ IF saveOk
             THEN /\ songs' = songs \cup {[id |-> SongIds[created + 1], n |-> created + 1,
                                           userEmail |-> sessions[c].email,
                                           cloudinaryId |-> CloudIds[created + 1],
                                           plays |-> 0]}
                  /\ out' = [Reply("upload", c, sessions[c].email, 200, TRUE,
                                   "Song uploaded successfully!")
                               EXCEPT !.list = <<SongIds[created + 1]>>]
             ELSE /\ songs' = songs
                  /\ out' = Reply("upload", c, sessions[c].email, 500, FALSE, "Upload failed")
  /\ UNCHANGED <<now, ticks, env, conn, tracked, es, boot, users, testOtps, sessions, req,
                 hist, app>>

\* mutant: the owner is left out of the filter
FindSong_AnyOwner(id, email) ==
  {s \in songs : s.id = id}

\* Song.findOne({ _id: req.params.id, userEmail: req.session.email })
FindSong(id, email) ==
  {s \in songs : s.id = id /\ s.userEmail = email}

\* mutant: the document is kept when the Cloudinary destroy fails
DeleteSong_KeptOnDestroyFailure(c, id, destroyOk) ==
  /\ IF Unauthorized(sessions[c])
     THEN /\ out' = Reply("delete", c, Undefined, 401, FALSE, "Please login to continue")
          /\ UNCHANGED <<songs, cloud>>
     ELSE IF FindSong(id, sessions[c].email) = {}
     THEN /\ out' = Reply("delete", c, sessions[c].email, 404, FALSE, "Song not found")
          /\ UNCHANGED <<songs, cloud>>
     ELSE LET song == CHOOSE s \in FindSong(id, sessions[c].email) : TRUE IN
          /\ cloud' = IF destroyOk THEN cloud \ {song.cloudinaryId} ELSE cloud
          /\ songs' = IF destroyOk THEN {s \in songs : s.id # id} ELSE songs
          /\ out' = [Reply("delete", c, sessions[c].email, 200, TRUE, "Song deleted successfully")
                       EXCEPT !.list = <<id>>]
  /\ UNCHANGED <<now, ticks, env, conn, tracked, es, boot, users, testOtps, sessions,
                 created, req, hist, app>>

\* DELETE /songs/:id: requireAuth, Song.findOne, cloudinary destroy, Song.deleteOne
DeleteSong(c, id, destroyOk) ==
  /\ IF Unauthorized(sessions[c])
     THEN /\ out' = Reply("delete", c, Undefined, 401, FALSE, "Please login to continue")
          /\ UNCHANGED <<songs, cloud>>
     ELSE IF FindSong(id, sessions[c].email) = {}
     THEN /\ out' = Reply("delete", c, sessions[c].email, 404, FALSE, "Song not found")
          /\ UNCHANGED <<songs, cloud>>
     ELSE LET song == CHOOSE s \in FindSong(id, sessions[c].email) : TRUE IN
          /\ cloud' = IF destroyOk THEN cloud \ {song.cloudinaryId} ELSE cloud
          /\ songs' = {s \in songs : s.id # id}
          /\ out' = [Reply("delete", c, sessions[c].email, 200, TRUE, "Song deleted successfully")
                       EXCEPT !.list = <<id>>]
  /\ UNCHANGED <<now, ticks, env, conn, tracked, es, boot, users, testOtps, sessions,
                 created, req, hist, app>>

\* GET /songs, catch: Song.find rejected
GetSongsDbError(c) ==
  /\ ~Unauthorized(sessions[c])
  /\ out' = Reply("songs", c, sessions[c].email, 500, FALSE, "Error loading songs")
  /\ UNCHANGED <<now, ticks, env, es, boot, users, testOtps, sessions, songs, cloud, created,
                 req, hist, conn, tracked, app>>

\* DELETE /songs/:id, catch: Song.findOne rejected (found = FALSE), or
\* Song.deleteOne rejected after the Cloudinary destroy was attempted
DeleteSongDbError(c, id, found, destroyOk) ==
  /\ ~Unauthorized(sessions[c])
  /\ found => FindSong(id, sessions[c].email) # {}
  /\ cloud' = IF found /\ destroyOk
              THEN cloud \ {s.cloudinaryId : s \in FindSong(id, sessions[c].email)}
              ELSE cloud
  /\ out' = Reply("delete", c, sessions[c].email, 500, FALSE, "Error deleting song")
  /\ UNCHANGED <<now, ticks, env, es, boot, users, testOtps, sessions, songs, created, req,
                 hist, conn, tracked, app>>

\* POST /auth/logout: req.session.destroy called back with an error
LogoutError(c) ==
  /\ out' = Reply("logout", c, sessions[c].email, 500, FALSE, "Logout failed")
  /\ UNCHANGED <<now, ticks, env, es, boot, users, testOtps, sessions, songs, cloud, created,
                 req, hist, conn, tracked, app>>

\* TestOtp.find().sort({ createdAt: -1 }).limit(10): the stored codes
FindTestOtps == testOtps

\* GET /api/test-otps: 403 in production, else the stored test OTPs; the catch
\* answers with res.json, without a status
TestOtps(c, dbOk) ==
  /\ out' = IF env.production
            THEN Reply("test-otps", c, Undefined, 403, FALSE, "Not available in production")
            ELSE IF dbOk
            THEN [Reply("test-otps", c, Undefined, 200, TRUE, "")
                    EXCEPT !.otps = {t.otp : t \in FindTestOtps}]
            ELSE Reply("test-otps", c, Undefined, 200, FALSE, "error.message")
  /\ UNCHANGED <<now, ticks, env, es, boot, users, testOtps, sessions, songs, cloud, created,
                 req, hist, conn, tracked, app>>

\* ---------------------------------------------------------- the play counter
\* the list the frontend last loaded: the stored songs, or the demo entries
KnownToFrontend(id) ==
  \/ \E s \in songs : s.id = id
  \/ songs = {} /\ \E i \in DOMAIN DemoSongs : DemoSongs[i] = id

RECURSIVE CallsMade(_)
\* the trackPlayCount calls made so far for the ids in S
CallsMade(S) ==
  IF S = {} THEN 0
  ELSE LET id == CHOOSE x \in S : TRUE IN tracked[id].calls + CallsMade(S \ {id})

\* mutant: the call is made but no request is sent
TrackPlayCount_NoPost(id) ==
  /\ HasIdle
  /\ KnownToFrontend(id)
  /\ CallsMade(PlayIds) < MaxPlays
  /\ tracked' = [tracked EXCEPT ![id].calls = @ + 1]
  /\ UNCHANGED <<now, ticks, env, es, boot, users, testOtps, sessions, songs, cloud, created,
                 req, out, hist, conn, app>>

\* playSong(index) -> trackPlayCount(song._id): fetch POST /songs/:id/play is
\* sent; playSong does not wait for it
TrackPlayCount(id) ==
  /\ HasIdle
  /\ KnownToFrontend(id)
  /\ CallsMade(PlayIds) < MaxPlays
  /\ tracked' = [tracked EXCEPT ![id].calls = @ + 1]
  /\ req' = [req EXCEPT ![FreeSlot] =
                [IdleReq EXCEPT !.pc = "play_sent", !.route = "play", !.song = id]]
  /\ UNCHANGED <<now, ticks, env, es, boot, users, testOtps, sessions, songs, cloud, created,
                 out, hist, conn, app>>

\* trackPlayCount, catch: the fetch failed before it reached the server
PlayFetchFailed(r) ==
  /\ req[r].pc = "play_sent"
  /\ tracked' = [tracked EXCEPT ![req[r].song].failed = @ + 1]
  /\ req' = [req EXCEPT ![r] = IdleReq]
  /\ UNCHANGED <<now, ticks, env, es, boot, users, testOtps, sessions, songs, cloud, created,
                 out, hist, conn, app>>

\* the Song document's plays increased by one
RecordPlay(id) ==
  {IF s.id = id THEN [s EXCEPT !.plays = @ + 1] ELSE s : s \in songs}

\* POST /songs/:id/play: increase plays and answer the new count
PlaySong(r) ==
  /\ req[r].pc = "play_sent"
  /\ LET id == req[r].song IN
       IF \E s \in songs : s.id = id
       THEN /\ songs' = RecordPlay(id)
            /\ out' = [Reply("play", req[r].client, Undefined, 200, TRUE, "")
                         EXCEPT !.list = <<id>>,
                                !.plays = (CHOOSE s \in songs' : s.id = id).plays]
       ELSE /\ songs' = songs
            /\ out' = [Reply("play", req[r].client, Undefined, 404, FALSE, "Song not found")
                         EXCEPT !.list = <<id>>]
  /\ req' = [req EXCEPT ![r] = IdleReq]
  /\ UNCHANGED <<now, ticks, env, es, boot, users, testOtps, sessions, cloud, created, hist,
                 conn, tracked, app>>

\* mutant: logout clears userId and keeps the rest of the session
Logout_ClearsUserId(c) ==
  /\ sessions' = [sessions EXCEPT ![c].userId = 0]
  /\ out' = Reply("logout", c, sessions[c].email, 200, TRUE, "Logged out successfully")
  /\ UNCHANGED <<now, ticks, env, conn, tracked, es, boot, users, testOtps, songs, cloud,
                 created, req, hist, app>>

\* POST /auth/logout: req.session.destroy
Logout(c) ==
  /\ sessions' = [sessions EXCEPT ![c] = NoSession]
  /\ out' = Reply("logout", c, sessions[c].email, 200, TRUE, "Logged out successfully")
  /\ UNCHANGED <<now, ticks, env, conn, tracked, es, boot, users, testOtps, songs, cloud,
                 created, req, hist, app>>

\* GET /health and GET /api/email-status: emailSystem.getStatus()
EmailStatus(route) ==
  /\ out' = [Reply(route, "c1", Undefined, 200, TRUE, "")
               EXCEPT !.emailStatus = getStatus(es),
                      !.mongodb = route = "health" /\ conn.connected]
  /\ UNCHANGED <<now, ticks, env, conn, tracked, es, boot, users, testOtps, sessions, songs,
                 cloud, created, req, hist, app>>

\* ------------------------------------------- frontend v4.0 (no auth) start-up
\* everything but the frontend
serverVars ==
  <<now, ticks, env, es, boot, users, testOtps, sessions, songs, cloud, created, req, out, hist,
    conn, tracked>>

\* the script has been evaluated and AppInitializer.initialize() not yet called:
\* AppState as declared, the loading screen showing; the page came from the
\* backend's origin, which can be reached
ScriptLoaded ==
  [pc |-> "loaded", attempt |-> 0, requests |-> 0, delayed |-> 0, gotOk |-> FALSE,
   result |-> "pending", timer |-> "none", currentScreen |-> "loading",
   loadingHidden |-> FALSE, mainActive |-> FALSE, backendAvailable |-> FALSE,
   listening |-> FALSE, songs |-> <<>>, songsPending |-> 0, songsRequests |-> 0,
   reloads |-> 0, message |-> "", warned |-> FALSE, clicks |-> 0, backendUp |-> TRUE]

StartingUpWarning == "Backend server is starting up. Songs may not load yet."

\* what the functions called during initialize() can do
SetupOutcomes == {"done", "setupEventListeners throws", "setupPlayer throws"}

\* what a fetch of /health can come to: an OK response with a JSON body, an OK
\* response whose body response.json() rejects, a response with another status,
\* a rejected fetch (network error, or the abort after HEALTH_TIMEOUT)
HealthOutcomes == {"ok", "unparsable", "not_ok", "throws"}

\* the playlists a GET /songs can answer with
SongLists == {<<>>, <<"s1">>}

showMessageInPlayer(a, text) ==
  [a EXCEPT !.message = text, !.warned = @ \/ text = StartingUpWarning]

\* showPlayer: hide the loading screen, the rest after 300 ms
showPlayer(a) == [a EXCEPT !.loadingHidden = TRUE, !.pc = "timer", !.timer = "player"]

\* loadUserSongs up to its await: return early without a backend, else fetch /songs
loadUserSongs(a) ==
  IF ~a.backendAvailable
  THEN showMessageInPlayer(a, "Server not available. Cannot load songs.")
  ELSE [showMessageInPlayer(a, "Loading music library...")
          EXCEPT !.songsPending = @ + 1, !.songsRequests = @ + 1]

\* handleInitializationError: the emergency fallback after 2000 ms
handleInitializationError(a) == [a EXCEPT !.pc = "timer", !.timer = "emergency"]

\* one turn of the loop of checkBackendHealthWithRetry up to its await of fetch;
\* delay is the time awaited since the attempt before
FetchHealth(a, delay) ==
  [a EXCEPT !.pc = "health", !.attempt = @ + 1, !.requests = @ + 1, !.delayed = delay]

\* the loop has ended, checkBackendHealthWithRetry returns false:
\* startBackendConnection shows the player after 1000 ms
BackendNotAvailable(a) ==
  [a EXCEPT !.result = "false", !.backendAvailable = FALSE, !.pc = "timer",
            !.timer = "warning"]

\* AppInitializer.initialize up to the first await
Initialize(setup) ==
  /\ app.pc = "loaded"
  /\ app' = IF setup # "done"
            THEN handleInitializationError(
                   [app EXCEPT !.listening = setup # "setupEventListeners throws"])
            ELSE FetchHealth([app EXCEPT !.listening = TRUE], 0)
  /\ UNCHANGED serverVars

\* the fetch of /health settles and checkBackendHealthWithRetry runs on to its
\* next await or returns into startBackendConnection
HealthSettles(o) ==
  /\ app.pc = "health"
  /\ app.backendUp \/ o = "throws"
  /\ app' = CASE o = "ok" ->
                 showPlayer([app EXCEPT !.gotOk = TRUE, !.result = "true",
                                        !.backendAvailable = TRUE])
             [] o = "not_ok" ->
                 IF app.attempt < MAX_RETRIES THEN FetchHealth(app, 0)
                 ELSE BackendNotAvailable(app)
             [] OTHER ->
                 LET a == [app EXCEPT !.gotOk = @ \/ o = "unparsable"] IN
                 IF app.attempt < MAX_RETRIES THEN [a EXCEPT !.pc = "retry_wait"]
                 ELSE BackendNotAvailable(a)
  /\ UNCHANGED serverVars

\* the setTimeout(resolve, RETRY_DELAY) of the catch fires
RetryDelayElapsed ==
  /\ app.pc = "retry_wait"
  /\ app' = FetchHealth(app, RETRY_DELAY)
  /\ UNCHANGED serverVars

\* a start-up timer fires: the one of the not-available branch, the one of
\* showPlayer, or the one of handleInitializationError
TimerFires ==
  /\ app.pc = "timer"
  /\ app' = CASE app.timer = "warning" ->
                 showMessageInPlayer(showPlayer(app), StartingUpWarning)
             [] app.timer = "player" ->
                 loadUserSongs([app EXCEPT !.mainActive = TRUE, !.currentScreen = "player",
                                           !.pc = "ready", !.timer = "none"])
             [] OTHER ->
                 showMessageInPlayer(
                   [app EXCEPT !.loadingHidden = TRUE, !.mainActive = TRUE,
                               !.pc = "ready", !.timer = "none"],
                   "Application initialization failed. Please refresh the page.")
  /\ UNCHANGED serverVars

\* a click on the refresh button
Refresh ==
  /\ app.mainActive /\ app.listening
  /\ app.clicks < MaxClicks
  /\ app' = loadUserSongs([app EXCEPT !.clicks = @ + 1])
  /\ UNCHANGED serverVars

\* uploadSong with a file chosen: on success the songs are reloaded after 2000 ms
UploadSong(ok) ==
  /\ app.mainActive /\ app.listening
  /\ app.clicks < MaxClicks
  /\ ok => app.backendUp
  /\ app' = IF ok
            THEN showMessageInPlayer([app EXCEPT !.clicks = @ + 1, !.reloads = @ + 1],
                                     "Song uploaded successfully!")
            ELSE showMessageInPlayer([app EXCEPT !.clicks = @ + 1], "Upload failed")
  /\ UNCHANGED serverVars

\* the reload timer of uploadSong fires
ReloadTimerFires ==
  /\ app.reloads > 0
  /\ app' = loadUserSongs([app EXCEPT !.reloads = @ - 1])
  /\ UNCHANGED serverVars

\* the fetch of /songs settles: loadUserSongs fills the playlist or reports
SongsSettle(ok, list) ==
  /\ app.songsPending > 0
  /\ ok => app.backendUp
  /\ app' = IF ok
            THEN showMessageInPlayer([app EXCEPT !.songsPending = @ - 1, !.songs = list],
                                     IF Len(list) > 0 THEN "songs loaded"
                                     ELSE "No songs found. Upload some music!")
            ELSE showMessageInPlayer([app EXCEPT !.songsPending = @ - 1],
                                     "Failed to load songs. Please refresh.")
  /\ UNCHANGED serverVars

\* the backend goes down or comes up
BackendReachability(up) ==
  /\ app.backendUp # up
  /\ app' = [app EXCEPT !.backendUp = up]
  /\ UNCHANGED serverVars

\* ------------------------------------------------------------ specification
\* the module has loaded: nothing stored, no session, no request in flight, the
\* start-up initialize() has run up to its await; the environment is fixed
Init ==
  /\ now = 0
  /\ ticks = 0
  /\ env \in {[hasCredentials |-> h, production |-> p] : h \in BOOLEAN, p \in BOOLEAN}
  /\ es = BootInitialize(env.hasCredentials)
  /\ boot = IF env.hasCredentials THEN "verify" ELSE "done"
  /\ users = {}
  /\ testOtps = {}
  /\ sessions = [c \in Clients |-> NoSession]
  /\ songs = {}
  /\ cloud = {}
  /\ created = 0
  /\ req = [r \in ReqIds |-> IdleReq]
  /\ out = NoResponse
  /\ hist = [e \in UserEmails |-> NoHist]
  /\ conn = connectWithRetry(NewConnection)
  /\ tracked = [id \in PlayIds |-> NoTrack]
  /\ app = ScriptLoaded

AllIdle == \A r \in ReqIds : req[r].pc = "idle"

Boot == \E ok \in BOOLEAN : BootVerified(ok)
Clock == \E d \in TimeSteps : Tick(d)
SendOtpSteps ==
  \/ \E r \in ReqIds, n \in OtpDraws : SendOtpStore(r, n)
  \/ \E r \in ReqIds, y \in Years : SendOtpEmailCall(r, y)
  \/ \E r \in ReqIds, o \in SmtpOutcomes : SendOtpRespond(r, o)
SendOtpLazy ==
  \/ \E r \in ReqIds : SendOtpLazyInitialize(r)
  \/ \E r \in ReqIds, ok \in BOOLEAN, y \in Years : SendOtpLazyVerified(r, ok, y)
VerifyOtpSteps ==
  \/ \E r \in ReqIds : VerifyOtpSave(r)
  \/ \E r \in ReqIds : VerifyOtpRespond(r)
SongRoutes ==
  \/ \E c \in Clients : GetSongs(c)
  \/ \E c \in Clients, f \in Files, co \in BOOLEAN, so \in BOOLEAN : Upload(c, f, co, so)
  \/ \E c \in Clients, i \in 1..Len(SongIds), d \in BOOLEAN : DeleteSong(c, SongIds[i], d)
SessionRoutes ==
  \/ \E c \in Clients : GetAuthUser(c)
  \/ \E c \in Clients : Logout(c)
StatusRoutes == \E route \in {"health", "email-status"} : EmailStatus(route)

\* every request, from any client, at any time
Next ==
  \/ Boot
  \/ Clock
  \/ \E c \in Clients, e \in RawEmails : SendOtpFind(c, e)
  \/ SendOtpSteps
  \/ SendOtpLazy
  \/ \E c \in Clients, e \in RawEmails, k \in CodeInputs : VerifyOtpFind(c, e, k)
  \/ VerifyOtpSteps
  \/ SongRoutes
  \/ SessionRoutes
  \/ StatusRoutes
  \/ \E r \in ReqIds : SendOtpDbError(r)
  \/ \E r \in ReqIds : VerifyOtpDbError(r)
  \/ \E c \in Clients : GetSongsDbError(c)
  \/ \E c \in Clients, i \in 1..Len(SongIds), f \in BOOLEAN, d \in BOOLEAN :
        DeleteSongDbError(c, SongIds[i], f, d)
  \/ \E c \in Clients : LogoutError(c)
  \/ \E c \in Clients, ok \in BOOLEAN : TestOtps(c, ok)
  \/ ConnectSettles
  \/ Elapse(TimerStep)
  \/ RetryTimerFires
  \/ \E up \in BOOLEAN : Reachability(up)
  \/ \E id \in PlayIds : TrackPlayCount(id)
  \/ \E r \in ReqIds : PlayFetchFailed(r)
  \/ \E r \in ReqIds : PlaySong(r)
  \/ \E setup \in SetupOutcomes : Initialize(setup)
  \/ \E o \in HealthOutcomes : HealthSettles(o)
  \/ RetryDelayElapsed
  \/ TimerFires
  \/ Refresh
  \/ \E ok \in BOOLEAN : UploadSong(ok)
  \/ ReloadTimerFires
  \/ \E ok \in BOOLEAN, list \in SongLists : SongsSettle(ok, list)
  \/ \E up \in BOOLEAN : BackendReachability(up)

Spec == Init /\ [][Next]_vars

\* the OTP flow of one client and one address, no SMTP credentials configured,
\* requests handled one after another
OtpEmails == {EmailA, EmailAUpper, EmailAPadded, EmailNoDot}
OtpCodes == {ToString(100000), ToString(856404), <<"1","2","3","4","5">>}

InitOtp == Init /\ ~env.hasCredentials /\ ~env.production

NextOtp ==
  \/ Clock
  \/ AllIdle /\ \E e \in OtpEmails : SendOtpFind("c1", e)
  \/ \E r \in ReqIds : SendOtpStore(r, 100000)
  \/ \E r \in ReqIds, y \in Years : SendOtpEmailCall(r, y)
  \/ \E r \in ReqIds, o \in SmtpOutcomes : SendOtpRespond(r, o)
  \/ AllIdle /\ \E e \in OtpEmails, k \in OtpCodes : VerifyOtpFind("c1", e, k)
  \/ VerifyOtpSteps

SpecOtp == InitOtp /\ [][NextOtp]_vars

\* two clients verify at the same time: steps of their handlers interleave
RaceCodes == {ToString(100000), ToString(856404)}

NextRace ==
  \/ AllIdle /\ SendOtpFind("c1", EmailA)
  \/ \E r \in ReqIds : SendOtpStore(r, 100000)
  \/ \E r \in ReqIds, y \in Years : SendOtpEmailCall(r, y)
  \/ \E r \in ReqIds, o \in SmtpOutcomes : SendOtpRespond(r, o)
  \/ \E c \in Clients, k \in RaceCodes : VerifyOtpFind(c, EmailA, k)
  \/ VerifyOtpSteps

SpecRace == InitOtp /\ [][NextRace]_vars

\* the email system: start-up, send-otp requests for one address that may
\* arrive before start-up has finished, the status routes; a minute passes at a
\* time

NextMail ==
  \/ Boot
  \/ Tick(minDelay)
  \/ AllIdle /\ SendOtpFind("c1", EmailA)
  \/ \E r \in ReqIds, n \in OtpDraws : SendOtpStore(r, n)
  \/ \E r \in ReqIds, y \in Years : SendOtpEmailCall(r, y)
  \/ \E r \in ReqIds, o \in SmtpOutcomes : SendOtpRespond(r, o)
  \/ SendOtpLazy
  \/ StatusRoutes

InitMail == Init /\ ~env.production

SpecMail == InitMail /\ [][NextMail]_vars

\* the User collection: send-otp requests for one address start at any time and
\* overlap each other and a verify-otp of another client, which starts while
\* nothing else is in flight; a send-otp for a second address comes in between;
\* a minute passes between bursts

NextUsers ==
  \/ AllIdle /\ Tick(minDelay)
  \/ SendOtpFind("c1", EmailAUpper)
  \/ AllIdle /\ SendOtpFind("c1", EmailD)
  \/ \E r \in ReqIds : SendOtpStore(r, 100000)
  \/ \E r \in ReqIds : SendOtpDbError(r)
  \/ \E r \in ReqIds : SendOtpEmailCall(r, 2025)
  \/ \E r \in ReqIds : SendOtpRespond(r, Delivered)
  \/ AllIdle /\ VerifyOtpFind("c2", EmailA, ToString(100000))
  \/ VerifyOtpSteps

SpecUsers == InitOtp /\ [][NextUsers]_vars

\* the database connection: connectWithRetry's loop while the database server
\* goes down and comes up, and /health reporting the connection.  The event
\* loop runs a settled promise's continuation and a due timer, and time passes.
NextConn ==
  \/ ConnectSettles
  \/ Elapse(TimerStep)
  \/ RetryTimerFires
  \/ \E up \in BOOLEAN : Reachability(up)
  \/ StatusRoutes

SpecConn ==
  /\ InitOtp
  /\ [][NextConn]_vars
  /\ WF_vars(ConnectSettles)
  /\ WF_vars(Elapse(TimerStep))
  /\ WF_vars(RetryTimerFires)

\* song ownership: client c1 logs in as a@b.c and client c2 as d@b.c, both
\* upload, list and delete; requests handled one after another
OwnerOf(c) == IF c = "c1" THEN EmailA ELSE EmailD

NextOwn ==
  \/ AllIdle /\ \E c \in Clients : SendOtpFind(c, OwnerOf(c))
  \/ \E r \in ReqIds : SendOtpStore(r, 100000)
  \/ \E r \in ReqIds : SendOtpEmailCall(r, 2025)
  \/ \E r \in ReqIds : SendOtpRespond(r, Delivered)
  \/ AllIdle /\ \E c \in Clients : VerifyOtpFind(c, OwnerOf(c), ToString(100000))
  \/ VerifyOtpSteps
  \/ AllIdle /\ \E c \in Clients : GetSongs(c)
  \/ AllIdle /\ \E c \in Clients : Upload(c, AudioFile, TRUE, TRUE)
  \/ AllIdle /\ \E c \in Clients, i \in 1..Len(SongIds), d \in BOOLEAN :
                   DeleteSong(c, SongIds[i], d)

SpecOwn == InitOtp /\ [][NextOwn]_vars

\* failures inside the handlers: requests handled one after another, any
\* NODE_ENV, a database or cloud call may reject
InitFail == Init /\ ~env.hasCredentials

FailEmails == {EmailAUpper, EmailNoDot, Undefined}

NextFail ==
  \/ AllIdle /\ \E e \in FailEmails : SendOtpFind("c1", e)
  \/ \E r \in ReqIds : SendOtpStore(r, 100000)
  \/ \E r \in ReqIds : SendOtpDbError(r)
  \/ \E r \in ReqIds : SendOtpEmailCall(r, 2025)
  \/ \E r \in ReqIds : SendOtpRespond(r, Delivered)
  \/ AllIdle /\ \E k \in OtpCodes : VerifyOtpFind("c1", EmailAUpper, k)
  \/ VerifyOtpSteps
  \/ \E r \in ReqIds : VerifyOtpDbError(r)
  \/ AllIdle /\ GetSongs("c1")
  \/ AllIdle /\ GetSongsDbError("c1")
  \/ AllIdle /\ \E f \in Files, co \in BOOLEAN, so \in BOOLEAN : Upload("c1", f, co, so)
  \/ AllIdle /\ \E i \in 1..Len(SongIds), d \in BOOLEAN : DeleteSong("c1", SongIds[i], d)
  \/ AllIdle /\ \E i \in 1..Len(SongIds), f \in BOOLEAN, d \in BOOLEAN :
                   DeleteSongDbError("c1", SongIds[i], f, d)
  \/ AllIdle /\ GetAuthUser("c1")
  \/ AllIdle /\ Logout("c1")
  \/ AllIdle /\ LogoutError("c1")
  \/ AllIdle /\ \E ok \in BOOLEAN : TestOtps("c1", ok)

SpecFail == InitFail /\ [][NextFail]_vars

\* the play counter: one client logs in and uploads, then songs are played;
\* play requests overlap each other, the other requests are handled one by one
NextPlay ==
  \/ AllIdle /\ SendOtpFind("c1", EmailA)
  \/ \E r \in ReqIds : SendOtpStore(r, 100000)
  \/ \E r \in ReqIds, y \in Years : SendOtpEmailCall(r, y)
  \/ \E r \in ReqIds, o \in SmtpOutcomes : SendOtpRespond(r, o)
  \/ AllIdle /\ VerifyOtpFind("c1", EmailA, ToString(100000))
  \/ VerifyOtpSteps
  \/ AllIdle /\ Upload("c1", AudioFile, TRUE, TRUE)
  \/ AllIdle /\ \E i \in 1..Len(SongIds) : DeleteSong("c1", SongIds[i], TRUE)
  \/ \E id \in PlayIds : TrackPlayCount(id)
  \/ \E r \in ReqIds : PlayFetchFailed(r)
  \/ \E r \in ReqIds : PlaySong(r)

SpecPlay == InitOtp /\ [][NextPlay]_vars

\* sessions and the song routes: two clients and one address, requests handled
\* one after another, no SMTP credentials, within the minute after start-up

NextGate ==
  \/ AllIdle /\ \E c \in Clients : SendOtpFind(c, EmailAUpper)
  \/ \E r \in ReqIds : SendOtpStore(r, 100000)
  \/ \E r \in ReqIds, y \in Years : SendOtpEmailCall(r, y)
  \/ \E r \in ReqIds, o \in SmtpOutcomes : SendOtpRespond(r, o)
  \/ AllIdle /\ \E c \in Clients, k \in RaceCodes : VerifyOtpFind(c, EmailAUpper, k)
  \/ VerifyOtpSteps
  \/ AllIdle /\ SongRoutes
  \/ AllIdle /\ SessionRoutes

SpecGate == InitOtp /\ [][NextGate]_vars

\* one session: client c1 asks for codes and verifies them; logout, the session
\* check and the song list arrive at any time, also while a verify-otp is
\* waiting for the database; uploads and deletes when nothing is in flight; a
\* minute passes between requests
NextSession ==
  \/ AllIdle /\ Tick(minDelay)
  \/ AllIdle /\ SendOtpFind("c1", EmailA)
  \/ \E r \in ReqIds : SendOtpStore(r, 100000)
  \/ \E r \in ReqIds : SendOtpEmailCall(r, 2025)
  \/ \E r \in ReqIds : SendOtpRespond(r, Delivered)
  \/ AllIdle /\ \E k \in RaceCodes : VerifyOtpFind("c1", EmailA, k)
  \/ VerifyOtpSteps
  \/ GetAuthUser("c1")
  \/ Logout("c1")
  \/ LogoutError("c1")
  \/ GetSongs("c1")
  \/ AllIdle /\ \E f \in Files : Upload("c1", f, TRUE, TRUE)
  \/ AllIdle /\ \E i \in 1..Len(SongIds) : DeleteSong("c1", SongIds[i], TRUE)

SpecSession == InitOtp /\ [][NextSession]_vars

\* the frontend from the moment its script has loaded: the event loop runs every
\* continuation that is due and every timer that has expired
NextFront ==
  \/ \E setup \in SetupOutcomes : Initialize(setup)
  \/ \E o \in HealthOutcomes : HealthSettles(o)
  \/ RetryDelayElapsed
  \/ TimerFires
  \/ Refresh
  \/ \E ok \in BOOLEAN : UploadSong(ok)
  \/ ReloadTimerFires
  \/ \E ok \in BOOLEAN, list \in SongLists : SongsSettle(ok, list)
  \/ \E up \in BOOLEAN : BackendReachability(up)

SpecFront ==
  /\ InitOtp
  /\ [][NextFront]_vars
  /\ WF_vars(\E setup \in SetupOutcomes : Initialize(setup))
  /\ WF_vars(\E o \in HealthOutcomes : HealthSettles(o))
  /\ WF_vars(RetryDelayElapsed)
  /\ WF_vars(TimerFires)

\* ------------------------------------------------------------------ claims
\* request r, a verify-otp past validation, is answered in this step
VerifyAnswered(r) ==
  req[r].route = "verify-otp" /\ req[r].pc # "idle" /\ req'[r].pc = "idle"

\* request r, a send-otp, passes or fails the rate limit check in this step
SendOtpChecked(r) == req[r].pc = "send_found" /\ req'[r].pc # "send_found"

\* C1 (as amended): requests handled one after another, no new send-otp: once 5
\* verify requests with a wrong 6-digit code have been answered, no later verify
\* request for that email succeeds or creates a session; a later well-formed
\* request whose lookup still finds the unexpired OTP is answered 429 and leaves
\* otp and otpExpires cleared; one that finds none is answered 400.
C1_LockoutAfterFiveWrong ==
  [][\A r \in ReqIds :
       (/\ VerifyAnswered(r)
        /\ req[r].email \in DOMAIN hist
        /\ hist[req[r].email].wrongs >= MaxOtpAttempts)
       => /\ out'.status # 200
          /\ sessions' = sessions
          /\ IF req[r].user # NoUser
             THEN /\ out'.status = 429
                  /\ \A u \in users' :
                       u.email = req[r].email => u.otp = Undefined /\ u.otpExpires = NoDate
             ELSE out'.status = 400 /\ users' = users]_vars

\* C1 as stated: after 5 wrong codes the next verify request (the OTP is still
\* stored) is answered 429 and the stored otp and otpExpires are cleared.
C1_NextAnswered429 ==
  [][\A r \in ReqIds :
       (/\ VerifyAnswered(r)
        /\ req[r].email \in DOMAIN hist
        /\ hist[req[r].email].wrongs >= MaxOtpAttempts
        /\ \E u \in users : u.email = req[r].email /\ u.otp # Undefined)
       => /\ out'.status = 429
          /\ \A u \in users' :
               u.email = req[r].email => u.otp = Undefined /\ u.otpExpires = NoDate]_vars

\* a lockout was answered: 5 wrong codes, then 429, and the OTP is gone
C1_Witness ==
  /\ out.route = "verify-otp" /\ out.status = 429
  /\ hist[EmailA].wrongs >= MaxOtpAttempts
  /\ \E u \in users : u.email = EmailA /\ u.otp = Undefined /\ u.otpExpires = NoDate

\* C3: an OTP issued at time t (lastOtpRequest) is accepted only by a verify
\* request looked up strictly before t + 10 minutes; one looked up at or after
\* that time is answered 400, creates no session and leaves the user unchanged.
C3_OtpExpiry ==
  [][\A r \in ReqIds :
       VerifyAnswered(r) =>
         /\ out'.status = 200 =>
               req[r].at < req[r].user.lastOtpRequest + 10 * 60 * 1000
         /\ \A u \in users :
               (/\ u.email = req[r].email
                /\ u.otp # Undefined
                /\ req[r].at >= u.lastOtpRequest + 10 * 60 * 1000)
               => out'.status = 400 /\ sessions' = sessions /\ users' = users]_vars

\* a verify request was refused because the stored OTP had expired
C3_Witness ==
  /\ out.route = "verify-otp" /\ out.status = 400
  /\ out.message = "No OTP found or OTP has expired"
  /\ \E u \in users :
       u.email = out.email /\ u.otp # Undefined /\ now >= u.lastOtpRequest + 10 * 60 * 1000

\* C8: requests handled one after another: a send-otp that reaches the rate
\* limit check less than 60 s after the stored lastOtpRequest is answered 429
\* with retryAfter in 1..60, sends no email and leaves the user unchanged; and
\* whenever an OTP is stored, the previous one is at least 60 s old.
C8_RateLimit ==
  [][\A r \in ReqIds :
       SendOtpChecked(r) =>
         \A u \in users :
           u.email = req[r].email /\ u.lastOtpRequest # NoDate =>
             IF now - u.lastOtpRequest < 60 * 1000
             THEN /\ out'.status = 429
                  /\ out'.retryAfter \in 1..60
                  /\ req'[r].pc = "idle"
                  /\ users' = users /\ testOtps' = testOtps
             ELSE users' # users => now - u.lastOtpRequest >= 60 * 1000]_vars

\* a send-otp was refused one millisecond after the previous one
C8_Witness ==
  /\ out.route = "send-otp" /\ out.status = 429 /\ out.retryAfter = 60
  /\ \E u \in users : u.email = out.email /\ now - u.lastOtpRequest = 1

\* request r, a send-otp, gets its email result and is answered in this step
SendOtpAnswered(r) == req[r].pc = "send_mailed" /\ req'[r].pc = "idle"

\* request r hands its mail to a transporter in this step
SendMailCalled(r) ==
  req[r].pc \in {"send_stored", "send_verify"} /\ req'[r].pc = "send_mailed"

C4_OneLoginPerOtp == \A e \in DOMAIN hist : hist[e].uses <= 1

\* C5: the send-otp response has the field otp only when the mail went to the
\* simulated transporter; after a send through SMTP, delivered or failed,
\* neither the sendOtpEmail result nor the response carries an otp.
C5_OtpOnlyWhenSimulated ==
  [][\A r \in ReqIds :
       SendOtpAnswered(r) =>
         /\ out'.otp # Undefined => req[r].transporter = "simulated" /\ out'.simulated
         /\ req[r].transporter # "simulated" =>
              /\ out'.otp = Undefined
              /\ ~out'.simulated
              /\ \A o \in SmtpOutcomes :
                   SendOtpEmailResult(es', req[r].transporter, o, req[r].otp, req[r].mailOtp).otp
                     = Undefined]_vars

\* a send through SMTP failed and was answered 503 without an otp
C5_Witness ==
  /\ out.route = "send-otp" /\ out.status = 503 /\ out.otp = Undefined
  /\ es.transporter = "smtp" /\ es.consecutiveFailures > 0

\* C6: with the simulated transporter, the otp returned in the send-otp
\* response equals the OTP stored for that email.
C6_ReturnedOtpIsStored ==
  (out.route = "send-otp" /\ out.simulated) =>
    \E u \in users : u.email = out.email /\ u.otp = out.otp

\* C7: once consecutiveFailures has reached maxConsecutiveFailures, every later
\* sendOtpEmail call hands its mail to the simulated transporter.
C7_FallbackIsSimulated ==
  [][\A r \in ReqIds :
       (SendMailCalled(r) /\ es.consecutiveFailures >= maxConsecutiveFailures)
       => req'[r].transporter = "simulated"]_vars

\* C9 as stated: the outcome of a request's OTP email send never changes a
\* value in process memory that later send-otp, /health and /api/email-status
\* responses depend on.
C9_RequestsLeaveEmailSystem ==
  [][(\E r \in ReqIds : SendOtpAnswered(r)) => getStatus(es') = getStatus(es)]_vars

\* C9 (as amended): the emailSystem object is in-process state shared between
\* requests: it changes only in the start-up initialize() and in the
\* sendOtpEmail steps of send-otp requests (lazy initialize, consecutiveFailures,
\* mode), every other step leaves it alone, and /health and
\* /api/email-status report its values as they are when they are asked.
C9_EmailSystemSharedBySendOtp ==
  [][/\ es' # es =>
          \/ boot' # boot
          \/ \E r \in ReqIds :
               /\ req[r].route = "send-otp"
               /\ req[r].pc \in {"send_stored", "send_verify", "send_mailed"}
               /\ req'[r] # req[r]
     /\ \A route \in {"health", "email-status"} :
          EmailStatus(route) =>
            /\ out'.emailStatus.consecutiveFailures = es.consecutiveFailures
            /\ out'.emailStatus.mode = es.mode
            /\ out'.emailStatus.initialized = es.initialized
            /\ out'.emailStatus.configured = es.configured]_vars

\* /health reports failures that earlier send-otp requests left behind
C9_Witness ==
  /\ out.route = "health"
  /\ out.emailStatus.consecutiveFailures = 2
  /\ es.consecutiveFailures = 2
  /\ AllIdle

\* C10: GET /songs, POST /upload and DELETE /songs/:id are never answered 401.
C10_NeverUnauthorized ==
  ~(out.route \in {"songs", "upload", "delete"} /\ out.status = 401)
\* the play requests for song id that are in flight
PlaysInFlight(id) == Cardinality({r \in ReqIds : req[r].pc = "play_sent" /\ req[r].song = id})

SendOtpStored(r) == req[r].pc = "send_found" /\ req'[r].pc = "send_stored"

\* C12: in every state there is at most one User document per lower-cased
\* email address, and every stored email is lower case; a send-otp that stores
\* an OTP for an address that already has a document leaves the number of
\* documents unchanged and sets, in the document with the same id, otp to the
\* new code, otpExpires to 10 minutes ahead, otpAttempts to 0 and
\* lastOtpRequest to the time of the request.
C12_OneUserPerEmail ==
  [][/\ \A u \in users' : \A v \in users' :
          ToLowerCase(u.email) = ToLowerCase(v.email) => u = v
     /\ \A u \in users' : u.email = ToLowerCase(u.email) /\ u.id # 0
     /\ \A u \in users' : \A v \in users' : u.id = v.id => u = v
     /\ \A r \in ReqIds :
          SendOtpStored(r) =>
            \A u \in users :
              u.email = req[r].email =>
                /\ Cardinality(users') = Cardinality(users)
                /\ \E v \in users' :
                     /\ v.id = u.id /\ v.email = u.email
                     /\ v.otp = req'[r].otp
                     /\ v.otpExpires = now + 10 * 60 * 1000
                     /\ v.otpAttempts = 0
                     /\ v.lastOtpRequest = now]_vars

\* two addresses have a document each, and the one for a@b.c, first created
\* with id 1, has been overwritten by a later send-otp written as A@b.c
C12_Witness ==
  /\ Cardinality(users) = 2
  /\ \E u \in users : u.email = EmailA /\ u.id = 1 /\ u.lastOtpRequest = minDelay
  /\ \E u \in users : u.email = EmailD
  /\ out.route = "send-otp" /\ out.status = 200 /\ out.email = EmailA
\* C13: a response that reports a failure (success = false) carries an HTTP
\* error status, 4xx or 5xx, never a 2xx status.
C13_FailuresAreErrors ==
  (out.status # 0 /\ ~out.success) => out.status >= 400 /\ out.status <= 599
\* the cloud assets no Song document refers to
Orphans(assets, docs) == assets \ {d.cloudinaryId : d \in docs}

\* C14: in POST /upload of a logged-in client with an accepted file: if the
\* cloud upload succeeds and saving the Song document fails, the answer is 500,
\* the new cloud asset stays and no Song document refers to it; if the cloud
\* upload fails, the answer is 500 and neither a Song document nor an asset is
\* created; and no later step removes an asset that no Song document refers to.
C14_NoCompensation ==
  [][/\ \A c \in Clients : \A f \in Files :
          (/\ ~Unauthorized(sessions[c])
           /\ f.present /\ MulterError(f) = ""
           /\ out'.route = "upload" /\ out'.client = c)
          => /\ Upload(c, f, TRUE, FALSE) =>
                  /\ out'.status = 500 /\ ~out'.success
                  /\ songs' = songs
                  /\ Cardinality(cloud') = Cardinality(cloud) + 1
                  /\ Orphans(cloud', songs') = Orphans(cloud, songs) \cup (cloud' \ cloud)
             /\ \A so \in BOOLEAN :
                  Upload(c, f, FALSE, so) =>
                    /\ out'.status = 500 /\ ~out'.success
                    /\ songs' = songs /\ cloud' = cloud
     /\ Orphans(cloud, songs) \subseteq Orphans(cloud', songs')]_vars

\* an upload was answered 500 after its asset was stored: the asset is there
\* and no Song document exists
C14_Witness ==
  /\ out.route = "upload" /\ out.status = 500
  /\ songs = {} /\ cloud = {CloudIds[1]}
\* C15: connectWithRetry keeps at most one connection attempt outstanding or
\* scheduled; a failed mongoose.connect schedules exactly one new attempt, which
\* starts when 5 seconds have passed; after the first success no attempt is
\* made or scheduled; and if the database becomes reachable and stays
\* reachable, the server is eventually connected.
C15_ReconnectLoop ==
  /\ [](conn.pending + conn.timers <= 1)
  /\ [](conn.connected => conn.pending = 0 /\ conn.timers = 0)
  /\ [][/\ (conn'.pending < conn.pending /\ ~conn'.connected) =>
            conn'.timers = conn.timers + 1 /\ conn'.wait = 5000
        /\ conn'.attempts > conn.attempts =>
            /\ conn'.attempts = conn.attempts + 1
            /\ conn.timers = 1 /\ conn.wait = 0 /\ conn'.timers = 0
            /\ conn'.pending = 1
        /\ conn.connected => conn'.connected /\ conn'.attempts = conn.attempts]_vars
  /\ (<>[]conn.reachable => <>conn.connected)

\* the server is connected at its third attempt, and /health says so
C15_Witness ==
  /\ conn.connected /\ conn.attempts = 3
  /\ out.route = "health" /\ out.mongodb
\* C16: for one issued OTP, at most 5 wrong codes are compared with it before
\* it is locked out, also when verify requests overlap.
C16_AtMostFiveCompared == \A e \in DOMAIN hist : hist[e].compared <= MaxOtpAttempts
\* the Song document with this id, as stored
SongWithId(id) == CHOOSE s \in songs : s.id = id

C18_FailedDeliveryLeavesNoTrace ==
  [][\A r \in ReqIds :
       (SendOtpAnswered(r) /\ ~out'.success) =>
         LET before == req[r].user
             after == IF \E u \in users' : u.email = req[r].email
                      THEN CHOOSE u \in users' : u.email = req[r].email
                      ELSE NoUser
         IN  /\ after.otp = before.otp
             /\ after.otpExpires = before.otpExpires
             /\ after.otpAttempts = before.otpAttempts
             /\ after.lastOtpRequest = before.lastOtpRequest
             /\ ~RateLimited(after, now)]_vars
\* C19: EmailSystem.initialize runs at most once per process: no sendOtpEmail
\* call starts a second initialize() while the start-up call is awaiting
\* verify(); and once initialized is true, transporter and configured never
\* change again.
C19_SingleInitialization ==
  [][/\ \A r \in ReqIds : ~(req[r].pc = "send_stored" /\ req'[r].pc = "send_verify")
     /\ es.initialized =>
          es'.transporter = es.transporter /\ es'.configured = es.configured]_vars

\* C20: an authenticated POST /upload with a file of a type outside allowedTypes
\* is answered 'Invalid file type. Only audio files allowed.', one over 100 MB
\* 'File too large (max 100MB)'; in both cases nothing is uploaded to the cloud
\* and no Song document is created.
C20_RejectedUploadMessages ==
  [][\A c \in Clients, f \in Files, co \in BOOLEAN, so \in BOOLEAN :
       (~Unauthorized(sessions[c]) /\ MulterError(f) # "" /\ Upload(c, f, co, so))
         => /\ MulterError(f) = "Invalid file type"
                 => out'.message = "Invalid file type. Only audio files allowed."
            /\ MulterError(f) = "LIMIT_FILE_SIZE"
                 => out'.message = "File too large (max 100MB)"
            /\ songs' = songs
            /\ cloud' = cloud]_vars

\* the routes that need a session
SessionGated == {"auth-user", "songs", "upload", "delete"}

C22_HealthCheckRetry ==
  /\ [][/\ app'.requests <= MAX_RETRIES
        /\ (app.requests >= 1 /\ app'.requests = app.requests + 1)
              => app'.delayed = RETRY_DELAY
        /\ app.gotOk => app'.requests = app.requests
        /\ app'.gotOk => app'.result = "true"
        /\ app'.result = "false" => ~app'.gotOk /\ app'.requests = MAX_RETRIES]_vars
  /\ (app.pc = "health") ~> (app.result # "pending")

\* C23: for every outcome of initialization the frontend eventually hides the
\* loading screen, shows the main app and sets AppState.currentScreen to
\* 'player', and stays there.
C23_StartupReachesPlayer ==
  <>[](app.loadingHidden /\ app.mainActive /\ app.currentScreen = "player")

\* C24: after a start-up that ended with the warning 'Backend server is
\* starting up. Songs may not load yet.', a loadUserSongs made by the refresh
\* button or by the reload after an upload while the backend is reachable sends
\* GET /songs.
C24_LateBackendLoadsSongs ==
  [][(app.warned /\ app.backendUp /\ (Refresh \/ ReloadTimerFires))
       => app'.songsRequests = app.songsRequests + 1]_vars

\* C25: when DELETE /songs/:id answers success, the Song document with that id
\* is gone and no other document is, also when the cloud destroy failed, in
\* which case the cloud asset remains; when it answers 404, or 500 because the
\* lookup failed, no Song document and no cloud asset is removed.
C25_DeleteRemovesRecord ==
  [][out'.route = "delete" =>
     \A c \in Clients, i \in 1..Len(SongIds), d \in BOOLEAN :
       /\ (DeleteSong(c, SongIds[i], d) /\ out'.success)
             => /\ songs' = {s \in songs : s.id # SongIds[i]}
                /\ \A s \in songs' : s.id # SongIds[i]
                /\ ~d => cloud' = cloud
       /\ (DeleteSong(c, SongIds[i], d) /\ out'.status = 404)
             => songs' = songs /\ cloud' = cloud
       /\ DeleteSongDbError(c, SongIds[i], FALSE, d)
             => out'.status = 500 /\ songs' = songs /\ cloud' = cloud]_vars

\* a delete was answered with success after its cloud destroy had failed: the
\* document is gone and the asset is still there
C25_Witness ==
  \E i \in 1..MaxSongs :
    /\ out.route = "delete" /\ out.success /\ out.list = <<SongIds[i]>>
    /\ \A s \in songs : s.id # SongIds[i]
    /\ CloudIds[i] \in cloud
====
